---------------------------- MODULE Spec2Model ----------------------------
(***************************************************************************)
(* Model of models/train_classifier.py: the text normaliser (tokenize),    *)
(* the data loader (load_data), the evaluator (evaluate_model), the model  *)
(* persister (save_model) and the orchestrator (main).                     *)
(*                                                                         *)
(* Two specifications share the variables:                                 *)
(*   SpecTok  applies tokenize to every text over a small alphabet;        *)
(*   Spec     is one invocation of main(), stage by stage.                 *)
(***************************************************************************)
EXTENDS Integers, Sequences, FiniteSets, TLC

VARIABLES
    text,            \* tokenize: the argument
    clean_tokens,    \* tokenize: the returned list
    tpc,             \* tokenize: "ready" before the call, "done" after it
    argv,            \* sys.argv
    pc,              \* main: position in the body
    trace,           \* main: prints, stage calls, returns and raises, in order
    connections,     \* number of reads of the data store so far
    df,              \* load_data: the table read at line 42
    X, Y, category_names,
    X_train, X_test, Y_train, Y_test,
    model,           \* the GridSearchCV object
    y_pred,          \* evaluate_model: the predicted label matrix
    report,          \* evaluate_model: what it printed
    artifact,        \* the file at model_filepath
    handle           \* the file object opened by save_model

tokvars  == <<text, clean_tokens, tpc>>
mainvars == <<argv, pc, trace, connections, df, X, Y, category_names,
              X_train, X_test, Y_train, Y_test, model, y_pred, report,
              artifact, handle>>
vars     == <<tokvars, mainvars>>

-----------------------------------------------------------------------------
(* Bounds *)

\* longest text given to tokenize
MaxLen == 4
\* largest number of positional command-line arguments
MaxArgs == 3
\* largest number of records in the cleaned_data table
MaxRows == 2

-----------------------------------------------------------------------------
(* Text: a string is a sequence of one-character strings.                   *)

Lowercase  == {"a", "s", "t"}
Uppercase  == {"A", "T"}
Whitespace == {" "}
Punct      == {"!"}
Alphabet   == Lowercase \cup Uppercase \cup Whitespace \cup Punct

\* str.lower on one character
LowerChar(c) == IF c = "A" THEN "a" ELSE IF c = "T" THEN "t" ELSE c

\* str.lower
lower(s) == [i \in 1..Len(s) |-> LowerChar(s[i])]

\* str.strip: drops leading and trailing whitespace
RECURSIVE lstrip(_)
lstrip(s) == IF s # <<>> /\ Head(s) \in Whitespace THEN lstrip(Tail(s)) ELSE s

RECURSIVE rstrip(_)
rstrip(s) ==
    IF s # <<>> /\ s[Len(s)] \in Whitespace
    THEN rstrip(SubSeq(s, 1, Len(s) - 1))
    ELSE s

strip(s) == rstrip(lstrip(s))

\* nltk word_tokenize on the alphabet: whitespace separates tokens and is
\* dropped, each punctuation mark is a token of its own, a run of letters is
\* one token.
Flush(cur) == IF cur = <<>> THEN <<>> ELSE <<cur>>

RECURSIVE WordTokenizeFrom(_, _, _)
WordTokenizeFrom(s, i, cur) ==
    IF i > Len(s) THEN Flush(cur)
    ELSE IF s[i] \in Whitespace
         THEN Flush(cur) \o WordTokenizeFrom(s, i + 1, <<>>)
    ELSE IF s[i] \in Punct
         THEN Flush(cur) \o << <<s[i]>> >> \o WordTokenizeFrom(s, i + 1, <<>>)
    ELSE WordTokenizeFrom(s, i + 1, Append(cur, s[i]))

\* a tokenizer that discards punctuation marks
RECURSIVE WordTokenizeDropPunct(_, _, _)
WordTokenizeDropPunct(s, i, cur) ==
    IF i > Len(s) THEN Flush(cur)
    ELSE IF s[i] \in Whitespace \cup Punct
         THEN Flush(cur) \o WordTokenizeDropPunct(s, i + 1, <<>>)
    ELSE WordTokenizeDropPunct(s, i + 1, Append(cur, s[i]))

word_tokenize_nopunct(s) == WordTokenizeDropPunct(s, 1, <<>>)

word_tokenize(s) == WordTokenizeFrom(s, 1, <<>>)

\* stopwords.words("english"), the entries spelled with the alphabet's
\* letters: a, as, at, s, t.  Every entry of the list is lower-case.
Stopwords == { <<"a">>, <<"a", "s">>, <<"a", "t">>, <<"s">>, <<"t">> }

\* WordNet noun lemmas spelled with the alphabet's letters (a fragment):
\* a, at, sat, tat.  The lemma index is keyed by lower-case forms.
Lexicon == { <<"a">>, <<"a", "t">>, <<"s", "a", "t">>, <<"t", "a", "t">> }

\* WordNet's noun detachment rule "s" -> "" (the one rule that applies to
\* words over the alphabet)
Detach(w) ==
    IF Len(w) > 1 /\ w[Len(w)] = "s" THEN {SubSeq(w, 1, Len(w) - 1)} ELSE {}

\* WordNetLemmatizer.lemmatize(word), pos = noun: the shortest known form
\* among the word and its detached forms, the word itself when none is known
lemmatize(w) ==
    LET known == ({w} \cup Detach(w)) \cap Lexicon
    IN  IF known = {} THEN w
        ELSE CHOOSE f \in known : \A g \in known : Len(f) <= Len(g)

\* tokenize (lines 49-72)
tokenize(s) ==
    LET tokens   == word_tokenize(s)
        filtered == SelectSeq(tokens, LAMBDA tok : tok \notin Stopwords)
    IN  [i \in 1..Len(filtered) |-> strip(lower(lemmatize(filtered[i])))]

Texts == UNION { [1..n -> Alphabet] : n \in 0..MaxLen }

-----------------------------------------------------------------------------
(* The data store: the cleaned_data table.                                  *)

\* the four columns that are not category labels (line 44)
MetaColumns == <<"id", "message", "original", "genre">>

\* category names a table may carry
CategoryPool == {"related", "request", "offer"}

Range(s) == {s[i] : i \in 1..Len(s)}

InjectiveSeqs(S) ==
    {s \in UNION {[1..n -> S] : n \in 0..Cardinality(S)} :
        \A i, j \in 1..Len(s) : i # j => s[i] # s[j]}

\* A column layout: the category columns cats, with the id column first and
\* the other non-label columns after the j-th category column; when
\* ~complete the table lacks its "original" column.
Layout(cats, j, complete) ==
    <<"id">> \o SubSeq(cats, 1, j)
      \o (IF complete THEN <<"message", "original", "genre">>
                      ELSE <<"message", "genre">>)
      \o SubSeq(cats, j + 1, Len(cats))

\* the value stored in a non-label column of record r
MetaValue(c, r) ==
    IF c = "id" THEN r
    ELSE IF c = "message" THEN 10 + r
    ELSE IF c = "original" THEN 20 + r
    ELSE 30 + r

\* a DataFrame: ordered column names, the row labels, and the cells
Frame(cols, idx, cells) == [columns |-> cols, index |-> idx, data |-> cells]

NoFrame == Frame(<<>>, {}, [r \in {} |-> 0])

\* a Series: the row labels and one value per row
Series(idx, vals) == [index |-> idx, val |-> vals]

NoSeries == Series({}, [r \in {} |-> 0])

TableOf(cols, n, labels) ==
    Frame(cols, 1..n,
          [r \in 1..n |->
              [c \in Range(cols) |->
                  IF c \in CategoryPool THEN labels[r][c] ELSE MetaValue(c, r)]])

\* where the non-label columns stand: before every category column, or
\* after the first one
Splits(cats) == {j \in {0, 1} : j <= Len(cats)}

\* every table the store may hold
Tables ==
    UNION {
      UNION {
        { TableOf(Layout(cats, j, TRUE), n, labels) :
            labels \in [1..n -> [Range(cats) -> {0, 1}]], j \in Splits(cats) }
        : n \in 0..MaxRows }
      : cats \in InjectiveSeqs(CategoryPool) }

\* tables without the "original" column
TablesLackingColumn ==
    { TableOf(Layout(cats, 0, FALSE), 1, [r \in 1..1 |-> [c \in Range(cats) |-> 0]]) :
        cats \in {s \in InjectiveSeqs(CategoryPool) : Len(s) = 1} }

StoreTables == Tables \cup TablesLackingColumn

-----------------------------------------------------------------------------
(* load_data (lines 27-47)                                                  *)

\* df[name] (line 43)
Column(t, name) == Series(t.index, [r \in t.index |-> t.data[r][name]])

\* columns kept by df.drop, sorted by name instead of in table order
DropColumnsSorted(t, names) ==
    LET keep == Range(t.columns) \ Range(names)
        order == <<"offer", "related", "request">>
    IN  SelectSeq(order, LAMBDA c : c \in keep)

\* columns kept by df.drop(columns = names) (line 44): the others, in order
DropColumns(t, names) ==
    SelectSeq(t.columns, LAMBDA c : c \notin Range(names))

\* df.drop(columns = names) (line 44)
Drop(t, names) ==
    LET kept == DropColumns(t, names)
    IN  Frame(kept, t.index,
              [r \in t.index |-> [c \in Range(kept) |-> t.data[r][c]]])

\* KeyError at line 43 or line 44: a named column is not in the table
LoadRaises(t) == ~ (Range(MetaColumns) \subseteq Range(t.columns))

\* load_data, given the table read at line 42
load_data(t) ==
    [X |-> Column(t, "message"),
     Y |-> Drop(t, MetaColumns),
     category_names |-> Drop(t, MetaColumns).columns]

-----------------------------------------------------------------------------
(* train_test_split(X, Y, test_size=0.2) (line 158)                         *)

\* test_size = 0.2, in tenths
TestSizeTenths == 2

\* number of test rows: ceil(0.2 * n)
NTest(n) == (n * TestSizeTenths + 9) \div 10

Rows(t, idx) ==
    Frame(t.columns, idx, [r \in idx |-> t.data[r]])

Take(s, idx) == Series(idx, [r \in idx |-> s.val[r]])

\* the possible results: any NTest rows are the test part, the others the
\* training part; none (ValueError) when either part would be empty
train_test_split(x, y) ==
    LET n == Cardinality(x.index)
    IN  IF n = 0 \/ n - NTest(n) = 0 THEN {}
        ELSE { [X_train |-> Take(x, x.index \ t), X_test |-> Take(x, t),
                Y_train |-> Rows(y, y.index \ t), Y_test |-> Rows(y, t)] :
                 t \in {u \in SUBSET x.index : Cardinality(u) = NTest(n)} }

-----------------------------------------------------------------------------
(* The search object returned by build_model (lines 74-95), its fit and its *)
(* predict.  Vectoriser, weights and forest are opaque: the object records  *)
(* the rows it was fitted on and the label columns it learned, in order.    *)

build_model == [fitted |-> FALSE, fit_index |-> {}, columns |-> <<>>]

\* model.fit(x, y) (line 164)
Fit(m, x, y) == [fitted |-> TRUE, fit_index |-> x.index, columns |-> y.columns]

\* An array returned by model.predict.  The forest returns one column per
\* learned label, in the order of the columns it was fitted on; with a
\* single label the array is one-dimensional.
Array2(idx, ncols, vals) == [ndim |-> 2, index |-> idx, ncols |-> ncols, val |-> vals]
Array1(idx, vals)        == [ndim |-> 1, index |-> idx, ncols |-> 0, val |-> vals]

NoArray == [ndim |-> 0, index |-> {}, ncols |-> 0, val |-> [r \in {} |-> 0]]

\* every array model.predict(x) may return (line 108)
Predictions(m, x) ==
    LET k == Len(m.columns)
    IN  IF k = 1
        THEN { Array1(x.index, v) : v \in [x.index -> {0, 1}] }
        ELSE { Array2(x.index, k, v) : v \in [x.index -> [1..k -> {0, 1}]] }

-----------------------------------------------------------------------------
(* sklearn.metrics on one label column.  t and p map the test rows to the   *)
(* true and the predicted label.                                            *)

\* accuracy_score(t, p) as the fraction <<correct, rows>>
accuracy_score(idx, t, p) == <<Cardinality({r \in idx : t[r] = p[r]}), Cardinality(idx)>>

\* round(100 * num / den) to the nearest integer, ties to even: the rounding
\* of '%.2f' and of round(., 2) on a value that is exactly representable
RoundHundredths(num, den) ==
    LET q   == (100 * num) \div den
        rem == (100 * num) % den
    IN  IF 2 * rem < den THEN q
        ELSE IF 2 * rem > den THEN q + 1
        ELSE IF q % 2 = 0 THEN q ELSE q + 1

Support(idx, t, c)    == Cardinality({r \in idx : t[r] = c})
Predicted(idx, p, c)  == Cardinality({r \in idx : p[r] = c})
TruePos(idx, t, p, c) == Cardinality({r \in idx : t[r] = c /\ p[r] = c})

\* a denominator, 1 when the ratio is defined as 0
Den(d) == IF d = 0 THEN 1 ELSE d

\* The weighted-average row of classification_report(t, p), in hundredths:
\* each class's precision, recall and F1 weighted by the class's support.
WeightedAvg(idx, t, p) ==
    LET n   == Cardinality(idx)
        s0  == Support(idx, t, 0)       s1  == Support(idx, t, 1)
        p0  == Predicted(idx, p, 0)     p1  == Predicted(idx, p, 1)
        tp0 == TruePos(idx, t, p, 0)    tp1 == TruePos(idx, t, p, 1)
    IN  [precision |-> RoundHundredths(s0 * tp0 * Den(p1) + s1 * tp1 * Den(p0),
                                       n * Den(p0) * Den(p1)),
         recall    |-> RoundHundredths(tp0 + tp1, n),
         f1        |-> RoundHundredths(
                          s0 * 2 * tp0 * Den(s1 + p1) + s1 * 2 * tp1 * Den(s0 + p0),
                          n * Den(s0 + p0) * Den(s1 + p1)),
         support   |-> n]

\* decimal digits
Digit(d) == <<"0", "1", "2", "3", "4", "5", "6", "7", "8", "9">>[d + 1]

DigitValue(c) == CHOOSE d \in 0..9 : Digit(d) = c

RECURSIVE Digits(_)
Digits(n) == IF n < 10 THEN <<Digit(n)>> ELSE Append(Digits(n \div 10), Digit(n % 10))

\* '{:>9}': right-aligned in a field of 9
Spaces(n) == [i \in 1..n |-> " "]
Field9(s) == IF Len(s) >= 9 THEN s ELSE Spaces(9 - Len(s)) \o s

\* '{:>9.2f}' of a value given in hundredths
Fixed2(h) == Field9(Digits(h \div 100) \o <<".", Digit((h \div 10) % 10), Digit(h % 10)>>)

\* the last line of the text classification_report(t, p) returns:
\* 'weighted avg' + ' ' + three ' {:>9.2f}' + ' {:>9}' + newline
ReportLastLine(w) ==
    <<"w", "e", "i", "g", "h", "t", "e", "d", " ", "a", "v", "g">> \o <<" ">>
      \o <<" ">> \o Fixed2(w.precision)
      \o <<" ">> \o Fixed2(w.recall)
      \o <<" ">> \o Fixed2(w.f1)
      \o <<" ">> \o Field9(Digits(w.support)) \o <<"\n">>

\* s[a:b] for negative a and b
Slice(s, a, b) == SubSeq(s, Len(s) + a + 1, Len(s) + b)

\* float(s) for s of the form d.dd, in hundredths
Float(s) == DigitValue(s[1]) * 100 + DigitValue(s[3]) * 10 + DigitValue(s[4])

-----------------------------------------------------------------------------
(* evaluate_model (lines 97-134)                                            *)

RECURSIVE Sum(_)
Sum(s) == IF s = <<>> THEN 0 ELSE Head(s) + Sum(Tail(s))

\* Y_test[category_name]
TrueColumn(y, name) == [r \in y.index |-> y.data[r][name]]

\* the column of the predictions paired with the i-th name, reversed
PredColumnReversed(yp, i) == [r \in yp.index |-> yp.val[r][yp.ncols + 1 - i]]

\* y_pred[:, i] (0-based i in the source, 1-based here)
PredColumn(yp, i) == [r \in yp.index |-> yp.val[r][i]]

\* IndexError at line 113 (y_pred[:, i] on a one-dimensional array) or
\* ZeroDivisionError at line 126 (no category)
EvaluateRaises(yp, names) == names = <<>> \/ yp.ndim # 2

\* one pass of the loop of lines 120-124 for the i-th category
CategoryRow(yp, y, names, i) ==
    LET t    == TrueColumn(y, names[i])
        p    == PredColumn(yp, i)
        last == ReportLastLine(WeightedAvg(y.index, t, p))
    IN  [category  |-> names[i],
         accuracy  |-> accuracy_score(y.index, t, p),
         precision |-> Float(Slice(last, -35, -31)),
         recall    |-> Float(Slice(last, -25, -21)),
         f1_score  |-> Float(Slice(last, -15, -11))]

\* the averages divided by the number of test rows
AveragesPerRow(rows, n) ==
    [accuracy  |-> RoundHundredths(Sum([i \in 1..Len(rows) |-> rows[i].accuracy[1]]), n * n),
     precision |-> RoundHundredths(Sum([i \in 1..Len(rows) |-> rows[i].precision]), 100 * n),
     recall    |-> RoundHundredths(Sum([i \in 1..Len(rows) |-> rows[i].recall]), 100 * n),
     f1_score  |-> RoundHundredths(Sum([i \in 1..Len(rows) |-> rows[i].f1_score]), 100 * n)]

\* lines 126-134: each sum divided by len(category_names), printed with
\* round(., 2); in hundredths.  n is the number of test rows, the
\* denominator of every accuracy.
Averages(rows, n) ==
    LET k == Len(rows)
    IN  [accuracy  |-> RoundHundredths(Sum([i \in 1..k |-> rows[i].accuracy[1]]), n * k),
         precision |-> RoundHundredths(Sum([i \in 1..k |-> rows[i].precision]), 100 * k),
         recall    |-> RoundHundredths(Sum([i \in 1..k |-> rows[i].recall]), 100 * k),
         f1_score  |-> RoundHundredths(Sum([i \in 1..k |-> rows[i].f1_score]), 100 * k)]

NoReport == [rows |-> <<>>, average |-> [accuracy |-> 0, precision |-> 0,
                                         recall |-> 0, f1_score |-> 0]]

\* what evaluate_model prints, given the predictions of line 108
evaluate_model(yp, y, names) ==
    LET rows == [i \in 1..Len(names) |-> CategoryRow(yp, y, names, i)]
    IN  [rows |-> rows, average |-> Averages(rows, Cardinality(y.index))]

-----------------------------------------------------------------------------
(* main (lines 153-178), one action per statement that can end the run or   *)
(* hand over to the next stage.                                             *)

Prog == "train_classifier.py"

\* sys.argv with n positional arguments
Argv(n) == <<Prog>> \o [i \in 1..n |-> IF i = 1 THEN "DisasterResponse.db"
                                       ELSE IF i = 2 THEN "classifier.pkl"
                                       ELSE "extra"]

\* the test of line 154 accepting any invocation with at least two arguments
ArgsOkAtLeast == Len(argv) >= 3

\* the test of line 154
ArgsOk == Len(argv) = 3

Emit(events) == trace' = trace \o events

\* lines 174-178
MainUsage ==
    /\ pc = "start" /\ ~ArgsOk
    /\ Emit(<<"print usage">>)
    /\ pc' = "done"
    /\ UNCHANGED <<tokvars, argv, connections, df, X, Y, category_names, X_train,
                   X_test, Y_train, Y_test, model, y_pred, report, artifact, handle>>

\* lines 155-157, load_data returning
MainLoad ==
    /\ pc = "start" /\ ArgsOk
    /\ \E t \in StoreTables :
         /\ ~LoadRaises(t)
         /\ df' = t
         /\ X' = load_data(t).X
         /\ Y' = load_data(t).Y
         /\ category_names' = load_data(t).category_names
    /\ connections' = connections + 1
    /\ Emit(<<"print Loading data...", "call load_data", "return load_data">>)
    /\ pc' = "loaded"
    /\ UNCHANGED <<tokvars, argv, X_train, X_test, Y_train, Y_test, model,
                   y_pred, report, artifact, handle>>

\* lines 155-157, load_data raising: the store or the table is missing
\* (line 42), or a column is (lines 43-44)
MainLoadFails ==
    /\ pc = "start" /\ ArgsOk
    /\ \/ TRUE
       \/ \E t \in StoreTables : LoadRaises(t)
    /\ connections' = connections + 1
    /\ Emit(<<"print Loading data...", "call load_data", "raise load_data">>)
    /\ pc' = "raised"
    /\ UNCHANGED <<tokvars, argv, df, X, Y, category_names, X_train, X_test,
                   Y_train, Y_test, model, y_pred, report, artifact, handle>>

\* line 158
MainSplit ==
    /\ pc = "loaded"
    /\ \E s \in train_test_split(X, Y) :
         /\ X_train' = s.X_train /\ X_test' = s.X_test
         /\ Y_train' = s.Y_train /\ Y_test' = s.Y_test
    /\ Emit(<<"call train_test_split", "return train_test_split">>)
    /\ pc' = "split"
    /\ UNCHANGED <<tokvars, argv, connections, df, X, Y, category_names, model,
                   y_pred, report, artifact, handle>>

\* line 158, train_test_split raising ValueError
MainSplitFails ==
    /\ pc = "loaded"
    /\ train_test_split(X, Y) = {}
    /\ Emit(<<"call train_test_split", "raise train_test_split">>)
    /\ pc' = "raised"
    /\ UNCHANGED <<tokvars, argv, connections, df, X, Y, category_names, X_train,
                   X_test, Y_train, Y_test, model, y_pred, report, artifact, handle>>

\* lines 160-161
MainBuild ==
    /\ pc = "split"
    /\ model' = build_model
    /\ Emit(<<"print Building model...", "call build_model", "return build_model">>)
    /\ pc' = "built"
    /\ UNCHANGED <<tokvars, argv, connections, df, X, Y, category_names, X_train,
                   X_test, Y_train, Y_test, y_pred, report, artifact, handle>>

\* lines 163-164 fitting on all loaded records
MainFitAll ==
    /\ pc = "built"
    /\ model' = Fit(model, X, Y)
    /\ Emit(<<"print Training model...", "call fit", "return fit">>)
    /\ pc' = "fitted"
    /\ UNCHANGED <<tokvars, argv, connections, df, X, Y, category_names, X_train,
                   X_test, Y_train, Y_test, y_pred, report, artifact, handle>>

\* lines 163-164, fit returning
MainFit ==
    /\ pc = "built"
    /\ model' = Fit(model, X_train, Y_train)
    /\ Emit(<<"print Training model...", "call fit", "return fit">>)
    /\ pc' = "fitted"
    /\ UNCHANGED <<tokvars, argv, connections, df, X, Y, category_names, X_train,
                   X_test, Y_train, Y_test, y_pred, report, artifact, handle>>

\* lines 163-164 with the failure of fit answered by another attempt
MainFitFailsRetry ==
    /\ pc = "built"
    /\ Emit(<<"print Training model...", "call fit", "raise fit">>)
    /\ pc' = "built"
    /\ UNCHANGED <<tokvars, argv, connections, df, X, Y, category_names, X_train,
                   X_test, Y_train, Y_test, model, y_pred, report, artifact, handle>>

\* lines 163-164, fit raising (degenerate training data)
MainFitFails ==
    /\ pc = "built"
    /\ Emit(<<"print Training model...", "call fit", "raise fit">>)
    /\ pc' = "raised"
    /\ UNCHANGED <<tokvars, argv, connections, df, X, Y, category_names, X_train,
                   X_test, Y_train, Y_test, model, y_pred, report, artifact, handle>>

\* lines 166-167, evaluate_model returning
MainEvaluate ==
    /\ pc = "fitted"
    /\ \E yp \in Predictions(model, X_test) :
         /\ ~EvaluateRaises(yp, category_names)
         /\ y_pred' = yp
         /\ report' = evaluate_model(yp, Y_test, category_names)
    /\ Emit(<<"print Evaluating model...", "call evaluate_model",
              "return evaluate_model">>)
    /\ pc' = "evaluated"
    /\ UNCHANGED <<tokvars, argv, connections, df, X, Y, category_names, X_train,
                   X_test, Y_train, Y_test, model, artifact, handle>>

\* lines 166-167, evaluate_model raising
MainEvaluateFails ==
    /\ pc = "fitted"
    /\ \E yp \in Predictions(model, X_test) :
         /\ EvaluateRaises(yp, category_names)
         /\ y_pred' = yp
    /\ Emit(<<"print Evaluating model...", "call evaluate_model",
              "raise evaluate_model">>)
    /\ pc' = "raised"
    /\ UNCHANGED <<tokvars, argv, connections, df, X, Y, category_names, X_train,
                   X_test, Y_train, Y_test, model, report, artifact, handle>>

\* lines 169-170 run straight after the fit
MainSaveEarly ==
    /\ pc \in {"fitted", "evaluated"}
    /\ artifact' = "written"
    /\ \E h \in {"closed", "open"} : handle' = h
    /\ Emit(<<"print Saving model...", "call save_model", "return save_model">>)
    /\ pc' = "saved"
    /\ UNCHANGED <<tokvars, argv, connections, df, X, Y, category_names, X_train,
                   X_test, Y_train, Y_test, model, y_pred, report>>

\* lines 169-170, save_model returning.  Line 150 opens the file and hands
\* the file object to pickle.dump without keeping or closing it: the object
\* is closed when the interpreter reclaims it, at once under reference
\* counting and at some later collection otherwise.
MainSave ==
    /\ pc = "evaluated"
    /\ artifact' = "written"
    /\ \E h \in {"closed", "open"} : handle' = h
    /\ Emit(<<"print Saving model...", "call save_model", "return save_model">>)
    /\ pc' = "saved"
    /\ UNCHANGED <<tokvars, argv, connections, df, X, Y, category_names, X_train,
                   X_test, Y_train, Y_test, model, y_pred, report>>

\* lines 169-170, save_model raising: open fails (unwritable path, nothing
\* opened or written), or pickle.dump fails on the opened, truncated file
MainSaveFails ==
    /\ pc = "evaluated"
    /\ \/ /\ UNCHANGED <<artifact, handle>>
       \/ /\ artifact' = "partial"
          /\ \E h \in {"closed", "open"} : handle' = h
    /\ Emit(<<"print Saving model...", "call save_model", "raise save_model">>)
    /\ pc' = "raised"
    /\ UNCHANGED <<tokvars, argv, connections, df, X, Y, category_names, X_train,
                   X_test, Y_train, Y_test, model, y_pred, report>>

\* line 172
MainFinish ==
    /\ pc = "saved"
    /\ Emit(<<"print Trained model saved!">>)
    /\ pc' = "done"
    /\ UNCHANGED <<tokvars, argv, connections, df, X, Y, category_names, X_train,
                   X_test, Y_train, Y_test, model, y_pred, report, artifact, handle>>

MainIdle ==
    /\ argv = Argv(0) /\ pc = "start" /\ trace = <<>> /\ connections = 0
    /\ df = NoFrame
    /\ X = NoSeries /\ Y = NoFrame /\ category_names = <<>>
    /\ X_train = NoSeries /\ X_test = NoSeries
    /\ Y_train = NoFrame /\ Y_test = NoFrame
    /\ model = build_model /\ y_pred = NoArray /\ report = NoReport
    /\ artifact = "absent" /\ handle = "none"

TokIdle == text = <<>> /\ clean_tokens = <<>> /\ tpc = "idle"

\* the state in which main() is entered, for every argument count
Init ==
    /\ TokIdle
    /\ argv \in {Argv(n) : n \in 0..MaxArgs}
    /\ pc = "start" /\ trace = <<>> /\ connections = 0
    /\ df = NoFrame
    /\ X = NoSeries /\ Y = NoFrame /\ category_names = <<>>
    /\ X_train = NoSeries /\ X_test = NoSeries
    /\ Y_train = NoFrame /\ Y_test = NoFrame
    /\ model = build_model /\ y_pred = NoArray /\ report = NoReport
    /\ artifact = "absent" /\ handle = "none"

Next ==
    \/ MainUsage
    \/ MainLoad \/ MainLoadFails
    \/ MainSplit \/ MainSplitFails
    \/ MainBuild
    \/ MainFit \/ MainFitFails
    \/ MainEvaluate \/ MainEvaluateFails
    \/ MainSave \/ MainSaveFails
    \/ MainFinish

Spec == Init /\ [][Next]_vars

-----------------------------------------------------------------------------
(* tokenize applied to every text of at most MaxLen characters              *)

\* the call tokenize(text)
Tokenize ==
    /\ tpc = "ready"
    /\ clean_tokens' = tokenize(text)
    /\ tpc' = "done"
    /\ UNCHANGED <<text, mainvars>>

InitTok ==
    /\ MainIdle
    /\ text \in Texts
    /\ clean_tokens = <<>>
    /\ tpc = "ready"

NextTok == Tokenize

SpecTok == InitTok /\ [][NextTok]_vars

-----------------------------------------------------------------------------
(* Properties                                                               *)

IsPrefix(a, b) == Len(a) <= Len(b) /\ SubSeq(b, 1, Len(a)) = a

Occurrences(e) == Cardinality({i \in 1..Len(trace) : trace[i] = e})

Happened(e) == \E i \in 1..Len(trace) : trace[i] = e

CallEvents ==
    {"call load_data", "call train_test_split", "call build_model", "call fit",
     "call evaluate_model", "call save_model"}

RaiseEvents ==
    {"raise load_data", "raise train_test_split", "raise build_model", "raise fit",
     "raise evaluate_model", "raise save_model"}

\* what a run without a failure prints and calls, in order
FullRun ==
    <<"print Loading data...", "call load_data", "return load_data",
      "call train_test_split", "return train_test_split",
      "print Building model...", "call build_model", "return build_model",
      "print Training model...", "call fit", "return fit",
      "print Evaluating model...", "call evaluate_model", "return evaluate_model",
      "print Saving model...", "call save_model", "return save_model",
      "print Trained model saved!">>

\* C1: with exactly two positional arguments and no failing stage, the
\* stages run once each in the order load_data, train_test_split,
\* build_model, fit, evaluate_model, save_model, each announced by its
\* progress line before it starts, and 'Trained model saved!' is printed only
\* after save_model has returned: at every moment the prints and calls so far
\* are a prefix of the full run, and a finished run is the full run.
C1_StagesInOrder ==
    (Len(argv) = 3 /\ pc # "raised") =>
        /\ IsPrefix(trace, FullRun)
        /\ (pc = "done" => trace = FullRun)

C1_Witness == Len(argv) = 3 /\ pc = "done" /\ trace = FullRun

\* C2: when the number of positional arguments is not two, only the usage
\* message is printed, nothing is raised, no stage is called, the store is
\* never read and no file is opened or written.
C2_UsageOnly ==
    (Len(argv) # 3) =>
        /\ pc \in {"start", "done"}
        /\ trace = (IF pc = "done" THEN <<"print usage">> ELSE <<>>)
        /\ connections = 0
        /\ ~model.fitted /\ report = NoReport
        /\ artifact = "absent" /\ handle = "none"

C2_Witness == Len(argv) = 4 /\ pc = "done" /\ trace = <<"print usage">>

\* C3: no token returned by tokenize is an English stopword, and every
\* returned token is lower-case without leading or trailing whitespace.
C3_NoStopwordLowerStripped ==
    tpc = "done" =>
        \A i \in 1..Len(clean_tokens) :
            /\ clean_tokens[i] \notin Stopwords
            /\ \A k \in 1..Len(clean_tokens[i]) : clean_tokens[i][k] \notin Uppercase
            /\ clean_tokens[i] # <<>> =>
                 /\ clean_tokens[i][1] \notin Whitespace
                 /\ clean_tokens[i][Len(clean_tokens[i])] \notin Whitespace

PunctuationOnly(s) == s # <<>> /\ \A i \in 1..Len(s) : s[i] \in Punct

\* C4 as stated: for an empty or punctuation-only text tokenize returns an
\* empty token sequence.
C4_EmptyForPunctuation ==
    (tpc = "done" /\ (text = <<>> \/ PunctuationOnly(text))) => clean_tokens = <<>>

\* C4 amended: for an empty text tokenize returns an empty token sequence;
\* for a punctuation-only text it returns, without failing, a non-empty
\* sequence whose tokens are made of punctuation marks.
C4_EmptyOrPunctuationTokens ==
    /\ (tpc = "done" /\ text = <<>>) => clean_tokens = <<>>
    /\ (tpc = "done" /\ PunctuationOnly(text)) =>
          /\ clean_tokens # <<>>
          /\ \A i \in 1..Len(clean_tokens) : PunctuationOnly(clean_tokens[i])

C4_Witness == tpc = "done" /\ PunctuationOnly(text) /\ Len(text) = 2 /\ Len(clean_tokens) = 2

\* C5: the category list returned by load_data is the column order of the
\* label matrix used for fitting, and the i-th reported category is scored
\* by comparing the true column of that name with the predicted column of
\* the label the model learned at position i, which is the same category.
C5_CategoryOrderPreserved ==
    /\ Happened("return load_data") => category_names = Y.columns
    /\ model.fitted =>
          /\ model.columns = category_names
          /\ model.columns = Y_train.columns
    /\ Happened("return evaluate_model") =>
          /\ Len(report.rows) = Len(category_names)
          /\ y_pred.ncols = Len(category_names)
          /\ \A i \in 1..Len(category_names) :
                /\ report.rows[i].category = category_names[i]
                /\ report.rows[i].accuracy[1] =
                      Cardinality({r \in Y_test.index :
                          Y_test.data[r][model.columns[i]] = y_pred.val[r][i]})

C5_Witness ==
    /\ pc = "evaluated" /\ Len(category_names) = 3
    /\ report.rows[1].accuracy # report.rows[3].accuracy

SumOf(field(_)) == Sum([i \in 1..Len(report.rows) |-> field(report.rows[i])])

Abs(x) == IF x < 0 THEN -x ELSE x

Position(s, e) == CHOOSE i \in 1..Len(s) : s[i] = e

\* C7: the label columns load_data returns are exactly the table's columns
\* other than id, message, original and genre, in the table's order and
\* with the table's values; the features are the message column; the
\* category names are the label columns in the same order.
C7_LoadDataColumns ==
    Happened("return load_data") =>
        /\ Range(Y.columns) = Range(df.columns) \ {"id", "message", "original", "genre"}
        /\ \A i, j \in 1..Len(Y.columns) :
              i < j => Position(df.columns, Y.columns[i]) < Position(df.columns, Y.columns[j])
        /\ Y.index = df.index
        /\ \A r \in df.index : \A c \in Range(Y.columns) : Y.data[r][c] = df.data[r][c]
        /\ X.index = df.index
        /\ \A r \in df.index : X.val[r] = df.data[r]["message"]
        /\ category_names = Y.columns

C7_Witness ==
    /\ pc = "loaded" /\ Len(category_names) = 3 /\ Cardinality(df.index) = 2
    /\ df.columns[2] = "request" /\ df.columns[4] = "original"
    /\ category_names = <<"request", "offer", "related">>

\* C8: the train and test parts are disjoint and cover the loaded records;
\* the search is fitted once, on the training part only; the predictions
\* are made for the test part.
C8_TrainTestSeparation ==
    /\ Happened("return train_test_split") =>
          /\ X_train.index \cap X_test.index = {}
          /\ X_train.index \cup X_test.index = X.index
          /\ Y_train.index = X_train.index /\ Y_test.index = X_test.index
          /\ \A r \in X_train.index : X_train.val[r] = X.val[r]
          /\ \A r \in X_test.index : X_test.val[r] = X.val[r]
    /\ model.fitted =>
          /\ model.fit_index = X_train.index
          /\ model.fit_index \cap X_test.index = {}
    /\ Occurrences("call fit") <= 1
    /\ Happened("return evaluate_model") =>
          /\ y_pred.index = X_test.index
          /\ model.fit_index = X_train.index

C8_Witness ==
    /\ pc = "evaluated" /\ model.fitted
    /\ Cardinality(X_train.index) = 1 /\ Cardinality(X_test.index) = 1

\* C9: a failing stage ends the run: the raise is the last thing that
\* happens, no stage is called twice, and when loading, splitting, fitting
\* or evaluation failed save_model was never called and no file was opened
\* or written.
C9_FailureAborts ==
    /\ \A i \in 1..Len(trace) : trace[i] \in RaiseEvents => (i = Len(trace) /\ pc = "raised")
    /\ pc = "raised" => (trace # <<>> /\ trace[Len(trace)] \in RaiseEvents)
    /\ \A e \in CallEvents : Occurrences(e) <= 1
    /\ (pc = "raised" /\ trace[Len(trace)] # "raise save_model") =>
          /\ Occurrences("call save_model") = 0
          /\ artifact = "absent" /\ handle = "none"

C9_Witness ==
    /\ pc = "raised" /\ trace[Len(trace)] = "raise evaluate_model"
    /\ artifact = "absent"

\* C10: the file object opened by save_model is released once save_model has
\* been left, whether it returned or raised.
C10_HandleReleased ==
    (Happened("return save_model") \/ (pc = "raised" /\ trace[Len(trace)] = "raise save_model"))
        => handle # "open"

====
